---- MODULE Spec2Model ----
(***************************************************************************)
(* DEEP composition polynomial (prover/src/monolith/composer/mod.rs).      *)
(*                                                                         *)
(* The Composer owns a coefficient vector and folds the trace polynomials  *)
(* (add_trace_polys), the constraint composition columns                   *)
(* (add_composition_poly) and the degree adjustment (adjust_degree) into   *)
(* it; evaluate consumes it.  Field elements are pairs <<a, b>> standing   *)
(* for a + b*phi in the quadratic extension F_P[phi]/(phi^2 - phi - 1);    *)
(* the base field is the set of pairs <<a, 0>>.  A failed assert! is a     *)
(* panic: the call is logged as aborted and the process stops.             *)
(***************************************************************************)
EXTENDS Integers, Sequences, FiniteSets, TLC

\* ------------------------------------------------------------------ bounds
MaxLogLen == 3
MaxRegisters == 2
MaxColumns == 2
MaxCalls == 3

\* ------------------------------------------------- field (math crate, leaf)
P == 17
TWO_ADICITY == 4
TWO_ADIC_ROOT_OF_UNITY == 3

ZERO == <<0, 0>>
ONE == <<1, 0>>

FromBase(b) == <<b % P, 0>>

Add(x, y) == <<(x[1] + y[1]) % P, (x[2] + y[2]) % P>>

Sub(x, y) == <<(x[1] + P - y[1]) % P, (x[2] + P - y[2]) % P>>

\* (a + b phi)(c + d phi) with phi^2 = phi + 1
Mul(x, y) ==
    <<(x[1] * y[1] + x[2] * y[2]) % P,
      (x[1] * y[2] + x[2] * y[1] + x[2] * y[2]) % P>>

\* the non-trivial automorphism of the extension: phi |-> 1 - phi
Conjugate(x) == <<(x[1] + x[2]) % P, (P - x[2]) % P>>

RECURSIVE Exp(_, _)
Exp(x, k) == IF k = 0 THEN ONE ELSE Mul(x, Exp(x, k - 1))

RECURSIVE Pow2(_)
Pow2(k) == IF k = 0 THEN 1 ELSE 2 * Pow2(k - 1)

RECURSIVE Log2(_)
Log2(n) == IF n <= 1 THEN 0 ELSE 1 + Log2(n \div 2)

\* B::get_root_of_unity(k): a root of unity of order 2^k
GetRootOfUnity(k) == Exp(FromBase(TWO_ADIC_ROOT_OF_UNITY), Pow2(TWO_ADICITY - k))

\* ------------------------------------------- polynomial primitives (leaf)
ZeroedVector(n) == [i \in 1..n |-> ZERO]

\* polynom::eval: Horner evaluation of p at x
RECURSIVE EvalFrom(_, _, _, _)
EvalFrom(p, x, i, acc) ==
    IF i = 0 THEN acc ELSE EvalFrom(p, x, i - 1, Add(Mul(acc, x), p[i]))

Eval(p, x) == EvalFrom(p, x, Len(p), ZERO)

\* polynom::degree_of: index of the highest non-zero coefficient, 0 if none
RECURSIVE DegreeFrom(_, _)
DegreeFrom(p, i) ==
    IF i = 0 THEN 0 ELSE IF p[i] # ZERO THEN i - 1 ELSE DegreeFrom(p, i - 1)

DegreeOf(p) == DegreeFrom(p, Len(p))

\* polynom::syn_div_in_place(a, 1, b): walks the coefficients from the top
\* with a carry c; each slot receives the previous carry, the last carry
\* (the remainder) is dropped
RECURSIVE SynDivFrom(_, _, _, _, _)
SynDivFrom(a, b, i, c, out) ==
    IF i = 0 THEN out
    ELSE SynDivFrom(a, b, i - 1, Add(a[i], Mul(b, c)), <<c>> \o out)

SynDivInPlace(a, b) == SynDivFrom(a, b, Len(a), ZERO, <<>>)

\* utils::mul_acc: a[i] += b[i] * c
MulAcc(a, b, c) == [i \in 1..Len(a) |-> Add(a[i], Mul(b[i], c))]

\* utils::add_in_place: a[i] += b[i]
AddInPlace(a, b) == [i \in 1..Len(a) |-> Add(a[i], b[i])]

\* E::from(B) applied to a whole polynomial
Lift(poly) == [i \in 1..Len(poly) |-> FromBase(poly[i])]

\* TracePolyTable::evaluate_at
EvaluateAt(trace_polys, x) ==
    [i \in 1..Len(trace_polys) |-> Eval(Lift(trace_polys[i]), x)]

\* --------------------------------------------------------------- Composer
VARIABLES
    coefficients,     \* DeepCompositionPoly.coefficients
    cc,               \* DeepCompositionPoly.cc: [trace, constraints, degree]
    z,                \* DeepCompositionPoly.z
    field_extension,  \* DeepCompositionPoly.field_extension
    status,           \* "running", "aborted" (a panic) or "consumed" (moved into evaluate)
    log,              \* the calls made so far: <<[op, outcome, at, arg]>>
    call,             \* the last call: entry state, locals and return value
    par,              \* concurrent build: the call in progress and its worker items
    runs              \* several Composers driven side by side over the same inputs

vars == <<coefficients, cc, z, field_extension, status, log, call, par, runs>>

poly_size(c) == Len(c)

degree(c) == DegreeOf(c)

\* assert_eq!(self.poly_size() - 2, self.degree()); on an empty vector the usize
\* subtraction overflows (a panic) or wraps (a value no degree equals): it fails
DegreeIsSizeMinus2(c) == poly_size(c) - 2 = degree(c)

\* assert_eq!(self.poly_size() - 1, self.degree())
DegreeIsSizeMinus1(c) == poly_size(c) - 1 = degree(c)

\* acc_poly with the scalar k left out of the accumulation
acc_poly_Unscaled(accumulator, poly, value, k) ==
    LET acc == MulAcc(accumulator, Lift(poly), ONE)
        adjusted_tz == Mul(value, k)
    IN  [acc EXCEPT ![1] = Sub(acc[1], adjusted_tz)]

\* acc_poly subtracting the value without the scalar k
acc_poly_UnscaledValue(accumulator, poly, value, k) ==
    LET acc == MulAcc(accumulator, Lift(poly), k)
    IN  [acc EXCEPT ![1] = Sub(acc[1], value)]

\* (P(x) - value) * k added into the accumulator
acc_poly(accumulator, poly, value, k) ==
    LET acc == MulAcc(accumulator, Lift(poly), k)
        adjusted_tz == Mul(value, k)
    IN  [acc EXCEPT ![1] = Sub(acc[1], adjusted_tz)]

\* the loop with the conjugate term scaled by cc.trace[i].1 instead of cc.trace[i].2
RECURSIVE TraceCompositions_WrongCoefficient(_, _, _, _, _, _, _)
TraceCompositions_WrongCoefficient(polys, trace_state1, trace_state2, cc_trace, fe, i, t) ==
    IF i > Len(polys) THEN t
    ELSE TraceCompositions_WrongCoefficient(
            polys, trace_state1, trace_state2, cc_trace, fe, i + 1,
            << acc_poly(t[1], polys[i], trace_state1[i], cc_trace[i][1]),
               acc_poly(t[2], polys[i], trace_state2[i], cc_trace[i][2]),
               IF fe
               THEN acc_poly(t[3], polys[i], Conjugate(trace_state1[i]), cc_trace[i][2])
               ELSE t[3] >>)

\* the loop over the registers of add_trace_polys; t = <<t1, t2, t3>>
RECURSIVE TraceCompositions(_, _, _, _, _, _, _)
TraceCompositions(polys, trace_state1, trace_state2, cc_trace, fe, i, t) ==
    IF i > Len(polys) THEN t
    ELSE TraceCompositions(polys, trace_state1, trace_state2, cc_trace, fe, i + 1,
            << acc_poly(t[1], polys[i], trace_state1[i], cc_trace[i][1]),
               acc_poly(t[2], polys[i], trace_state2[i], cc_trace[i][2]),
               IF fe
               THEN acc_poly(t[3], polys[i], Conjugate(trace_state1[i]), cc_trace[i][3])
               ELSE t[3] >>)

\* the sum of the non-empty polynomials polys[i..] added into result
RECURSIVE SumInto(_, _, _)
SumInto(result, polys, i) ==
    IF i > Len(polys) THEN result
    ELSE SumInto(IF polys[i] # <<>> THEN AddInPlace(result, polys[i]) ELSE result,
                 polys, i + 1)

\* the sum of the polynomials without the divisions
merge_trace_compositions_Undivided(polys, divisors) ==
    SumInto(polys[1], Tail(polys), 1)

\* serial build: divide every non-empty polynomial by (x - divisor), add them up
merge_trace_compositions(polys, divisors) ==
    LET divided == [i \in 1..Len(polys) |->
                       IF polys[i] # <<>> THEN SynDivInPlace(polys[i], divisors[i])
                       ELSE polys[i]]
    IN  SumInto(divided[1], Tail(divided), 1)

\* the body of add_trace_polys after its entry assertion
TraceComposition(self_z, self_cc, fe, trace_polys) ==
    LET trace_length == Len(trace_polys[1])
        g == GetRootOfUnity(Log2(trace_length))
        next_z == Mul(self_z, g)
        trace_state1 == EvaluateAt(trace_polys, self_z)
        trace_state2 == EvaluateAt(trace_polys, next_z)
        t == TraceCompositions(trace_polys, trace_state1, trace_state2, self_cc.trace, fe, 1,
                << ZeroedVector(trace_length), ZeroedVector(trace_length),
                   IF fe THEN ZeroedVector(trace_length) ELSE <<>> >>)
        divisors == <<self_z, next_z, Conjugate(self_z)>>
    IN  [ polys |-> t,
          divisors |-> divisors,
          trace_poly |-> merge_trace_compositions(t, divisors),
          frame |-> [current |-> trace_state1, next |-> trace_state2] ]

\* the closure applied to one column of add_composition_poly
DivideOutColumn(poly, z_m) ==
    LET value_at_z_m == Eval(poly, z_m)
        shifted == [poly EXCEPT ![1] = Sub(poly[1], value_at_z_m)]
    IN  [ value |-> value_at_z_m,
          shifted |-> shifted,
          poly |-> SynDivInPlace(shifted, z_m) ]

\* the loop adding H'_i(x) * cc_i into the coefficients
RECURSIVE AccumulateColumns(_, _, _, _)
AccumulateColumns(c, column_polys, cc_constraints, i) ==
    IF i > Len(column_polys) THEN c
    ELSE AccumulateColumns(MulAcc(c, column_polys[i], cc_constraints[i]),
                           column_polys, cc_constraints, i + 1)

\* the body of add_composition_poly after its entry assertion (serial build)
ConstraintComposition(self_coefficients, self_z, self_cc, columns) ==
    LET num_columns == Len(columns)
        z_m == Exp(self_z, num_columns)
        divided == [i \in 1..num_columns |-> DivideOutColumn(columns[i], z_m)]
    IN  [ z_m |-> z_m,
          shifted |-> [i \in 1..num_columns |-> divided[i].shifted],
          result |-> [i \in 1..num_columns |-> divided[i].value],
          coefficients |->
              AccumulateColumns(self_coefficients,
                                [i \in 1..num_columns |-> divided[i].poly],
                                self_cc.constraints, 1) ]

\* the second pass written over result and not over result[1..]
DegreeAdjustment_Unshifted(self_coefficients, self_cc) ==
    LET n == Len(self_coefficients)
        result == MulAcc(ZeroedVector(n), self_coefficients, self_cc.degree[1])
    IN  MulAcc(result, self_coefficients, self_cc.degree[2])

\* the body of adjust_degree between its two assertions
DegreeAdjustment(self_coefficients, self_cc) ==
    LET n == Len(self_coefficients)
        result == MulAcc(ZeroedVector(n), self_coefficients, self_cc.degree[1])
    IN  <<result[1]>> \o MulAcc(Tail(result), SubSeq(self_coefficients, 1, n - 1),
                                self_cc.degree[2])

\* ------------------------------------------------------------------ inputs
TraceLengths == {Pow2(k) : k \in 1..MaxLogLen}

\* trace polynomials over the base field: T(x) = x, T(x) = 1, and one of full degree
PolyX(n) == [i \in 1..n |-> IF i = 2 THEN 1 ELSE 0]

PolyOne(n) == [i \in 1..n |-> IF i = 1 THEN 1 ELSE 0]

PolyFull(n) == [i \in 1..n |-> (3 * i + 1) % P]

\* TracePolyTable: one polynomial of length n per register; register i of family s
\* holds x, 1 or the full-degree polynomial in turn (family 0 starts x, 1)
TracePoly(n, k) == IF k % 3 = 1 THEN PolyX(n) ELSE IF k % 3 = 2 THEN PolyOne(n) ELSE PolyFull(n)

TraceTables(n) == {[i \in 1..w |-> TracePoly(n, i + s)] : w \in 1..MaxRegisters, s \in 0..2}

\* the tables with a polynomial for every register the bundles have coefficients for
FullTraceTables(n) == {t \in TraceTables(n) : Len(t) = MaxRegisters}

\* one column of the constraint composition polynomial; odd j has extension coefficients
ColumnPoly(n, j, m) ==
    [i \in 1..n |-> <<(i + 2 * j + m) % P, ((j % 2) * (i + m)) % P>>]

\* CompositionPoly: m columns of length n
CompositionPolys(n) == {[j \in 1..m |-> ColumnPoly(n, j, m)] : m \in 1..MaxColumns}

\* out-of-domain points: a primitive element of the base field, and an extension element
Challenges == {<<3, 0>>, <<5, 1>>}

\* CompositionCoefficients for MaxRegisters registers and MaxColumns columns:
\* all zero, all one, two bundles over the base field (the first with d1 = 0) and
\* one over the extension
CoefficientsOf(t) ==
    [ trace |-> [i \in 1..MaxRegisters |->
                    CASE t = 0 -> <<ZERO, ZERO, ZERO>>
                      [] t = 1 -> <<ONE, ONE, ONE>>
                      [] t = 2 -> <<FromBase(i + 1), FromBase(2 * i + 3), FromBase(5 * i + 1)>>
                      [] t = 3 -> <<FromBase(3 * i), FromBase(i + 7), FromBase(i)>>
                      [] OTHER -> << <<i, 1>>, <<2, i>>, <<i + 3, 2 * i>> >>],
      constraints |-> [j \in 1..MaxColumns |->
                    CASE t = 0 -> ZERO
                      [] t = 1 -> ONE
                      [] t = 2 -> FromBase(j + 6)
                      [] t = 3 -> FromBase(4 * j)
                      [] OTHER -> <<j, 3>>],
      degree |-> CASE t = 0 -> <<ZERO, ZERO>>
                   [] t = 1 -> <<ONE, ONE>>
                   [] t = 2 -> <<FromBase(2), ZERO>>
                   [] t = 3 -> <<FromBase(2), FromBase(3)>>
                   [] OTHER -> << <<1, 2>>, <<0, 5>> >> ]

CoefficientBundles == {CoefficientsOf(t) : t \in 0..4}

\* -------------------------------------------------------------- assertions
\* the assertions left out
TraceEntryAssertion_Missing(c) == TRUE

TraceExitAssertion_Missing(c) == TRUE

CompositionEntryAssertion_Missing(c) == TRUE

CompositionExitAssertion_Missing(c) == TRUE

\* assert!(self.coefficients.is_empty()) on entry of add_trace_polys
TraceEntryAssertion(c) == c = <<>>

\* assert_eq!(self.poly_size() - 2, self.degree()) on exit of add_trace_polys
TraceExitAssertion(c) == DegreeIsSizeMinus2(c)

\* assert!(!self.coefficients.is_empty()) on entry of add_composition_poly
CompositionEntryAssertion(c) == c # <<>>

\* assert_eq!(self.poly_size() - 2, self.degree()) on exit of add_composition_poly
CompositionExitAssertion(c) == DegreeIsSizeMinus2(c)

\* assert_eq!(self.poly_size() - 2, self.degree()) on entry of adjust_degree
AdjustEntryAssertion(c) == DegreeIsSizeMinus2(c)

\* assert_eq!(self.poly_size() - 1, self.degree()) on exit of adjust_degree
AdjustExitAssertion(c) == DegreeIsSizeMinus1(c)

\* ----------------------------------------------------------------- actions
\* the fields of the Composer
Self == [coefficients |-> coefficients, cc |-> cc, z |-> z,
         field_extension |-> field_extension]

NoCall == [op |-> "new", before |-> <<>>, ret |-> <<>>, locals |-> <<>>]

\* DeepCompositionPoly::new
Init ==
    /\ coefficients = <<>>
    /\ cc \in CoefficientBundles
    /\ z \in Challenges
    /\ field_extension \in BOOLEAN
    /\ status = "running"
    /\ log = <<>>
    /\ call = NoCall
    /\ par = [pc |-> "serial"]
    /\ runs = <<>>

CanCall == status = "running" /\ Len(log) < MaxCalls

\* what a call leaves behind: the log entry, the call record, and the process status
Finish(op, outcome, at, arg, ret, locals) ==
    /\ log' = Append(log, [op |-> op, outcome |-> outcome, at |-> at, arg |-> arg])
    /\ call' = [op |-> op, before |-> Self, ret |-> ret, locals |-> locals]
    /\ status' = IF outcome = "aborted" THEN "aborted"
                 ELSE IF op = "evaluate" THEN "consumed" ELSE "running"
    /\ UNCHANGED <<cc, z, field_extension, par, runs>>

add_trace_polys(trace_polys) ==
    /\ CanCall
    /\ IF ~TraceEntryAssertion(coefficients)
       THEN /\ Finish("add_trace_polys", "aborted", "entry", <<>>, <<>>, <<>>)
            /\ UNCHANGED coefficients
       ELSE LET r == TraceComposition(z, cc, field_extension, trace_polys)
                locals == [polys |-> r.polys, divisors |-> r.divisors]
            IN  /\ coefficients' = r.trace_poly
                /\ IF TraceExitAssertion(r.trace_poly)
                   THEN Finish("add_trace_polys", "returned", "", trace_polys, r.frame, locals)
                   ELSE Finish("add_trace_polys", "aborted", "exit", trace_polys, <<>>, locals)

add_composition_poly(composition_poly) ==
    /\ CanCall
    /\ IF ~CompositionEntryAssertion(coefficients)
       THEN /\ Finish("add_composition_poly", "aborted", "entry", <<>>, <<>>, <<>>)
            /\ UNCHANGED coefficients
       ELSE LET r == ConstraintComposition(coefficients, z, cc, composition_poly)
                locals == [z_m |-> r.z_m, shifted |-> r.shifted]
            IN  /\ coefficients' = r.coefficients
                /\ IF CompositionExitAssertion(r.coefficients)
                   THEN Finish("add_composition_poly", "returned", "", composition_poly,
                               r.result, locals)
                   ELSE Finish("add_composition_poly", "aborted", "exit", composition_poly,
                               <<>>, locals)

adjust_degree ==
    /\ CanCall
    /\ IF ~AdjustEntryAssertion(coefficients)
       THEN /\ Finish("adjust_degree", "aborted", "entry", <<>>, <<>>, <<>>)
            /\ UNCHANGED coefficients
       ELSE LET result == DegreeAdjustment(coefficients, cc)
            IN  /\ coefficients' = result
                /\ IF AdjustExitAssertion(result)
                   THEN Finish("adjust_degree", "returned", "", <<>>, <<>>, <<>>)
                   ELSE Finish("adjust_degree", "aborted", "exit", <<>>, <<>>, <<>>)

\* evaluate(self, domain) consumes the Composer; it makes no assertion of its own and
\* hands the coefficients to the transform, which is given a domain of their length
evaluate ==
    /\ CanCall
    /\ coefficients # <<>>
    /\ Finish("evaluate", "returned", "", <<>>, <<>>, <<>>)
    /\ UNCHANGED coefficients

AddTracePolys == \E n \in TraceLengths : \E t \in TraceTables(n) : add_trace_polys(t)

AddCompositionPoly ==
    \E p \in CompositionPolys(IF coefficients = <<>> THEN 2 ELSE Len(coefficients)) :
        add_composition_poly(p)

AdjustDegree == adjust_degree

Evaluate == evaluate

Next == AddTracePolys \/ AddCompositionPoly \/ AdjustDegree \/ Evaluate

Spec == Init /\ [][Next]_vars

\* ------------------------------------------- concurrent build (rayon)
\* the values stored in the order the workers finish
ParCollect_CompletionOrder(result, j, value) ==
    LET k == CHOOSE k \in 1..Len(result) :
                 result[k] = <<>> /\ \A l \in 1..(k - 1) : result[l] # <<>>
    IN  [result EXCEPT ![k] = value]

\* where the parallel iterator's collect() stores the value of item j
ParCollect(result, j, value) == [result EXCEPT ![j] = value]

\* the divisor zipped with polynomial i
ParZip(divisors, i) == divisors[i]

InitPar ==
    /\ coefficients = <<>>
    /\ cc \in CoefficientBundles
    /\ z \in Challenges
    /\ field_extension \in BOOLEAN
    /\ status = "running"
    /\ log = <<>>
    /\ call = NoCall
    /\ par = [pc |-> "new"]
    /\ runs = <<>>

ParUnchanged == UNCHANGED <<cc, z, field_extension, status, log, call, runs>>

\* add_trace_polys up to the call of merge_trace_compositions
ParTraceBegin(trace_polys) ==
    /\ par.pc = "new"
    /\ TraceEntryAssertion(coefficients)
    /\ LET r == TraceComposition(z, cc, field_extension, trace_polys)
       IN  par' = [pc |-> "merge", trace_polys |-> trace_polys, polys |-> r.polys,
                   divisors |-> r.divisors, pending |-> {1, 2, 3}, frame |-> r.frame]
    /\ UNCHANGED coefficients
    /\ ParUnchanged

\* one item of polys.par_iter_mut().zip(divisors.par_iter()).for_each(..)
ParDivide(i) ==
    /\ par.pc = "merge"
    /\ i \in par.pending
    /\ par' = [par EXCEPT
                 !.pending = @ \ {i},
                 !.polys[i] = IF @ # <<>> THEN SynDivInPlace(@, ParZip(par.divisors, i))
                              ELSE @]
    /\ UNCHANGED coefficients
    /\ ParUnchanged

\* the sum after the parallel loop, and the rest of add_trace_polys
ParTraceEnd ==
    /\ par.pc = "merge"
    /\ par.pending = {}
    /\ LET result == SumInto(par.polys[1], Tail(par.polys), 1)
       IN  /\ coefficients' = result
           /\ par' = [pc |-> IF TraceExitAssertion(result) THEN "traced" ELSE "aborted",
                      trace_polys |-> par.trace_polys, frame |-> par.frame]
    /\ ParUnchanged

\* add_composition_poly up to the parallel map over the columns
ParCompositionBegin(composition_poly) ==
    /\ par.pc = "traced"
    /\ CompositionEntryAssertion(coefficients)
    /\ par' = [pc |-> "columns", trace_polys |-> par.trace_polys, frame |-> par.frame,
               composition_poly |-> composition_poly,
               z_m |-> Exp(z, Len(composition_poly)),
               column_polys |-> composition_poly,
               pending |-> 1..Len(composition_poly),
               result |-> [j \in 1..Len(composition_poly) |-> <<>>]]
    /\ UNCHANGED coefficients
    /\ ParUnchanged

\* one item of column_polys.par_iter_mut().map(..).collect()
ParColumn(j) ==
    /\ par.pc = "columns"
    /\ j \in par.pending
    /\ LET r == DivideOutColumn(par.column_polys[j], par.z_m)
       IN  par' = [par EXCEPT
                     !.pending = @ \ {j},
                     !.column_polys[j] = r.poly,
                     !.result = ParCollect(@, j, r.value)]
    /\ UNCHANGED coefficients
    /\ ParUnchanged

\* the loop after the parallel map, and the rest of add_composition_poly
ParCompositionEnd ==
    /\ par.pc = "columns"
    /\ par.pending = {}
    /\ LET c == AccumulateColumns(coefficients, par.column_polys, cc.constraints, 1)
       IN  /\ coefficients' = c
           /\ par' = [pc |-> IF CompositionExitAssertion(c) THEN "composed" ELSE "aborted",
                      trace_polys |-> par.trace_polys, frame |-> par.frame,
                      composition_poly |-> par.composition_poly,
                      traced |-> coefficients, result |-> par.result]
    /\ ParUnchanged

ParAddTracePolys == \E n \in TraceLengths : \E t \in TraceTables(n) : ParTraceBegin(t)

ParMerge == \E i \in 1..3 : ParDivide(i)

ParAddCompositionPoly ==
    \E p \in CompositionPolys(Len(coefficients)) : ParCompositionBegin(p)

ParColumns == \E j \in 1..MaxColumns : ParColumn(j)

NextPar ==
    \/ ParAddTracePolys
    \/ ParMerge
    \/ ParTraceEnd
    \/ ParAddCompositionPoly
    \/ ParColumns
    \/ ParCompositionEnd

SpecPar == InitPar /\ [][NextPar]_vars

\* ------------------------------- several Composers over the same inputs
\* DeepCompositionPoly::new, with what the two phases leave behind
NewComposer(new_z, new_cc, fe) ==
    [ coefficients |-> <<>>, cc |-> new_cc, z |-> new_z, field_extension |-> fe,
      status |-> "new", trace_poly |-> <<>>, frame |-> <<>>, polys |-> <<>>,
      divisors |-> <<>>, result |-> <<>> ]

\* the component-wise sum of two coefficient bundles
SumOfBundles(A, B) ==
    [ trace |-> [i \in 1..Len(A.trace) |->
                    [k \in 1..3 |-> Add(A.trace[i][k], B.trace[i][k])]],
      constraints |-> [j \in 1..Len(A.constraints) |->
                          Add(A.constraints[j], B.constraints[j])],
      degree |-> <<Add(A.degree[1], B.degree[1]), Add(A.degree[2], B.degree[2])>> ]

\* the bundle with every conjugate-term coefficient forced to the additive identity
WithoutConjugateTerm(A) ==
    [A EXCEPT !.trace = [i \in 1..Len(A.trace) |-> <<A.trace[i][1], A.trace[i][2], ZERO>>]]

IdleComposer ==
    /\ coefficients = <<>>
    /\ cc = CoefficientsOf(0)
    /\ z = ZERO
    /\ field_extension = FALSE
    /\ status = "idle"
    /\ log = <<>>
    /\ call = NoCall
    /\ par = [pc |-> "serial"]

\* three Composers with the bundles A, B and A + B
InitLinear ==
    /\ IdleComposer
    /\ \E new_z \in Challenges, fe \in BOOLEAN, a \in 1..4, n \in TraceLengths :
         \E b \in (a + 1)..4, t \in FullTraceTables(n), p \in CompositionPolys(n) :
            runs = [ kind |-> "linear", trace_polys |-> t, composition_poly |-> p,
                     c |-> << NewComposer(new_z, CoefficientsOf(a), fe),
                              NewComposer(new_z, CoefficientsOf(b), fe),
                              NewComposer(new_z, SumOfBundles(CoefficientsOf(a),
                                                              CoefficientsOf(b)), fe) >> ]

\* two Composers: without the field extension, and with it but no conjugate term
InitToggle ==
    /\ IdleComposer
    /\ \E new_z \in Challenges, a \in 0..4, n \in TraceLengths :
         \E t \in TraceTables(n), p \in CompositionPolys(n) :
            runs = [ kind |-> "toggle", trace_polys |-> t, composition_poly |-> p,
                     c |-> << NewComposer(new_z, CoefficientsOf(a), FALSE),
                              NewComposer(new_z, WithoutConjugateTerm(CoefficientsOf(a)),
                                          TRUE) >> ]

\* the driver takes the Composers in turn
Turn(r) ==
    /\ r \in 1..Len(runs.c)
    /\ \A q \in 1..(r - 1) : runs.c[q].status \in {"composed", "aborted"}

RunUnchanged ==
    UNCHANGED <<coefficients, cc, z, field_extension, status, log, call, par>>

\* add_trace_polys on Composer r
RunAddTracePolys(r) ==
    /\ Turn(r)
    /\ runs.c[r].status = "new"
    /\ TraceEntryAssertion(runs.c[r].coefficients)
    /\ LET self == runs.c[r]
           t == TraceComposition(self.z, self.cc, self.field_extension, runs.trace_polys)
           ok == TraceExitAssertion(t.trace_poly)
       IN  runs' = [runs EXCEPT !.c[r] =
                      [self EXCEPT !.coefficients = t.trace_poly,
                                   !.trace_poly = t.trace_poly,
                                   !.polys = t.polys,
                                   !.divisors = t.divisors,
                                   !.frame = IF ok THEN t.frame ELSE <<>>,
                                   !.status = IF ok THEN "traced" ELSE "aborted"]]
    /\ RunUnchanged

\* add_composition_poly on Composer r
RunAddCompositionPoly(r) ==
    /\ Turn(r)
    /\ runs.c[r].status = "traced"
    /\ CompositionEntryAssertion(runs.c[r].coefficients)
    /\ LET self == runs.c[r]
           h == ConstraintComposition(self.coefficients, self.z, self.cc,
                                      runs.composition_poly)
           ok == CompositionExitAssertion(h.coefficients)
       IN  runs' = [runs EXCEPT !.c[r] =
                      [self EXCEPT !.coefficients = h.coefficients,
                                   !.result = IF ok THEN h.result ELSE <<>>,
                                   !.status = IF ok THEN "composed" ELSE "aborted"]]
    /\ RunUnchanged

RunTraceComposition == \E r \in 1..3 : RunAddTracePolys(r)

RunConstraintComposition == \E r \in 1..3 : RunAddCompositionPoly(r)

NextRuns == RunTraceComposition \/ RunConstraintComposition

SpecLinear == InitLinear /\ [][NextRuns]_vars

SpecToggle == InitToggle /\ [][NextRuns]_vars

\* ------------------------------------------------------------------ claims
Last(s) == s[Len(s)]

\* the calls of op that returned normally
Returned(op) == {i \in 1..Len(log) : log[i].op = op /\ log[i].outcome = "returned"}

ReturnedBefore(op, i) == \E j \in Returned(op) : j < i

\* the trace length of the table given to the first call
TraceLength == Len(log[1].arg[1])

C2_TraceCompositionAlwaysReturns ==
    (call.op = "add_trace_polys" /\ call.before.coefficients = <<>>)
        => /\ Last(log).outcome = "returned"
           /\ poly_size(coefficients) = TraceLength
           /\ degree(coefficients) = TraceLength - 2

\* C2 amended: whenever add_trace_polys, and any add_composition_poly after it,
\* has returned normally, poly_size() = n and degree() = n - 2; that is, in every
\* state between a normal return of phase 1 and adjust_degree.  (add_trace_polys
\* aborts on its exit assertion when the combination has a lower degree.)
C2_DegreeBetweenTraceCompositionAndAdjustment ==
    (/\ status = "running"
     /\ Len(log) >= 1
     /\ \A i \in 1..Len(log) : log[i].op \in {"add_trace_polys", "add_composition_poly"})
        => /\ log[1].op = "add_trace_polys"
           /\ poly_size(coefficients) = TraceLength
           /\ degree(coefficients) = TraceLength - 2

\* add_trace_polys on a table of length 8, then add_composition_poly, both returned
C2_Witness ==
    /\ status = "running"
    /\ Len(log) = 2
    /\ log[1].op = "add_trace_polys"
    /\ log[2].op = "add_composition_poly"
    /\ TraceLength = 8
    /\ degree(coefficients) = 6

\* C(x)*d0 + x*C(x)*d1, coefficient by coefficient
ShiftedCombination(C, d0, d1) ==
    [k \in 1..Len(C) |->
        IF k = 1 THEN Mul(d0, C[1]) ELSE Add(Mul(d0, C[k]), Mul(d1, C[k - 1]))]

\* C3 as claimed: adjust_degree on a vector C of length n and degree n - 2 leaves
\* C(x)*d0 + x*C(x)*d1, of size n and of degree exactly n - 1 for every (d0, d1).
C3_AdjustDegreeAlwaysReachesFullDegree ==
    (call.op = "adjust_degree" /\ DegreeIsSizeMinus2(call.before.coefficients))
        => /\ coefficients = ShiftedCombination(call.before.coefficients,
                                                cc.degree[1], cc.degree[2])
           /\ poly_size(coefficients) = poly_size(call.before.coefficients)
           /\ degree(coefficients) = poly_size(coefficients) - 1

\* C3 amended: adjust_degree on a vector C of length n and degree n - 2 leaves
\* C(x)*d0 + x*C(x)*d1 of size n, dropping only the zero top coefficient of C; the
\* result has degree n - 1 exactly when d1 * C[n-2] is not zero, and then
\* adjust_degree returns; otherwise it aborts on its exit assertion.
C3_AdjustDegreeShiftsAndCombines ==
    (call.op = "adjust_degree" /\ DegreeIsSizeMinus2(call.before.coefficients))
        => LET C == call.before.coefficients
               n == Len(C)
           IN  /\ coefficients = ShiftedCombination(C, cc.degree[1], cc.degree[2])
               /\ poly_size(coefficients) = n
               /\ C[n] = ZERO
               /\ (degree(coefficients) = n - 1) <=> (Mul(cc.degree[2], C[n - 1]) # ZERO)
               /\ (Last(log).outcome = "returned") <=> (degree(coefficients) = n - 1)
               /\ Last(log).outcome = "aborted" => Last(log).at = "exit"

\* adjust_degree returned on a vector of length 8 with both coefficients non-zero
C3_Witness ==
    /\ call.op = "adjust_degree"
    /\ Last(log).outcome = "returned"
    /\ poly_size(coefficients) = 8
    /\ degree(coefficients) = 7
    /\ cc.degree[1] # ZERO
    /\ coefficients # call.before.coefficients

\* the scenario: trace length 8, T_0(x) = x and T_1(x) = 1, no field extension,
\* every coefficient one, z = 3 (a primitive element), add_trace_polys called first
Scenario ==
    /\ z = <<3, 0>>
    /\ cc = CoefficientsOf(1)
    /\ ~field_extension
    /\ Len(log) >= 1
    /\ log[1].op = "add_trace_polys"
    /\ log[1].arg = <<PolyX(8), PolyOne(8)>>

\* C4 as claimed: in the scenario add_trace_polys completes and the composed
\* polynomial has degree 6 before adjust_degree and 7 after it.
C4_ScenarioDegrees ==
    Scenario => /\ log[1].outcome = "returned"
                /\ Len(log) = 1 => degree(coefficients) = 6
                /\ (Len(log) = 2 /\ log[2].op = "adjust_degree") => degree(coefficients) = 7

\* C4 amended: in the scenario add_trace_polys aborts on its exit assertion: the
\* composed polynomial is the constant 2 (each of the two quotients of x is 1, the
\* quotients of the constant 1 are 0), of degree 0 and not 6, so no adjust_degree
\* follows.
C4_ScenarioAbortsOnDegreeAssertion ==
    Scenario => /\ log[1].outcome = "aborted"
                /\ log[1].at = "exit"
                /\ Len(log) = 1
                /\ coefficients = [i \in 1..8 |-> IF i = 1 THEN FromBase(2) ELSE ZERO]
                /\ degree(coefficients) = 0

\* the scenario has run
C4_Witness == Scenario /\ status = "aborted" /\ poly_size(coefficients) = 8

\* C8: add_trace_polys returns normally only on an empty Composer; called on a
\* non-empty one it aborts on the entry assertion with every field unchanged; at
\* most one add_trace_polys call returns normally.
C8_TraceCompositionOnlyOnEmptyComposer ==
    /\ Cardinality(Returned("add_trace_polys")) <= 1
    /\ call.op = "add_trace_polys" =>
          /\ Last(log).outcome = "returned" => call.before.coefficients = <<>>
          /\ call.before.coefficients # <<>> =>
                /\ Last(log).outcome = "aborted"
                /\ Last(log).at = "entry"
                /\ Self = call.before

\* a second add_trace_polys, after the first has returned
C8_Witness ==
    /\ call.op = "add_trace_polys"
    /\ call.before.coefficients # <<>>
    /\ Cardinality(Returned("add_trace_polys")) = 1
    /\ status = "aborted"

\* the remainder of the synthetic division of a by (x - b)
SynDivRemainder(a, b) == Add(a[1], Mul(b, SynDivInPlace(a, b)[1]))

\* C9: when merge_trace_compositions is called, each non-empty buffer evaluates to
\* zero at its divisor (z, z*g, z.conjugate()), so its division leaves remainder
\* zero; in add_composition_poly each column, once H_i(z^m) is subtracted from its
\* constant term, evaluates to zero at z^m.
C9_DivisionExactness ==
    /\ (call.op = "add_trace_polys" /\ Last(log).at # "entry") =>
          \A i \in 1..3 :
              call.locals.polys[i] # <<>> =>
                  /\ Eval(call.locals.polys[i], call.locals.divisors[i]) = ZERO
                  /\ SynDivRemainder(call.locals.polys[i], call.locals.divisors[i]) = ZERO
    /\ (call.op = "add_composition_poly" /\ Last(log).at # "entry") =>
          \A j \in 1..Len(call.locals.shifted) :
              /\ Eval(call.locals.shifted[j], call.locals.z_m) = ZERO
              /\ SynDivRemainder(call.locals.shifted[j], call.locals.z_m) = ZERO

\* add_trace_polys with the field extension, an extension challenge and two
\* registers: three non-zero buffers were divided
C9_Witness ==
    /\ call.op = "add_trace_polys"
    /\ Last(log).outcome = "returned"
    /\ field_extension
    /\ z[2] # 0
    /\ Len(Last(log).arg) = 2
    /\ \A i \in 1..3 : degree(call.locals.polys[i]) = TraceLength - 1

\* C10: once adjust_degree has returned normally (degree = poly_size - 1), a later
\* adjust_degree aborts on its entry assertion with the coefficients unchanged, a
\* later add_composition_poly aborts on its exit assertion, and no composition
\* phase returns normally; adjust_degree returns normally at most once.
C10_DegreeAdjustmentIsSingleShot ==
    /\ Cardinality(Returned("adjust_degree")) <= 1
    /\ (call.op = "adjust_degree" /\ Last(log).outcome = "returned")
          => degree(coefficients) = poly_size(coefficients) - 1
    /\ \A i \in Returned("adjust_degree") : \A j \in (i + 1)..Len(log) :
          /\ log[j].op \in {"add_trace_polys", "add_composition_poly", "adjust_degree"}
                => log[j].outcome = "aborted"
          /\ log[j].op = "adjust_degree"
                => log[j].at = "entry" /\ coefficients = call.before.coefficients
          /\ log[j].op = "add_composition_poly" => log[j].at = "exit"

\* add_composition_poly called after adjust_degree has returned
C10_Witness ==
    /\ Len(log) = 3
    /\ log[2].op = "adjust_degree"
    /\ log[2].outcome = "returned"
    /\ log[3].op = "add_composition_poly"
    /\ status = "aborted"

\* C7: whatever order the workers take the three trace buffers and the columns
\* in, the concurrent build leaves the coefficient vector, the frame and the
\* per-column evaluations (in column order) of the serial build.
C7_ConcurrentBuildMatchesSerial ==
    /\ (par.pc \in {"traced", "composed", "aborted"} /\ "traced" \notin DOMAIN par) =>
          LET r == TraceComposition(z, cc, field_extension, par.trace_polys)
          IN  /\ coefficients = r.trace_poly
              /\ par.frame = r.frame
    /\ "traced" \in DOMAIN par =>
          LET r == ConstraintComposition(par.traced, z, cc, par.composition_poly)
          IN  /\ coefficients = r.coefficients
              /\ par.result = r.result
              /\ par.traced = TraceComposition(z, cc, field_extension,
                                               par.trace_polys).trace_poly

\* both phases of the concurrent build returned, on two columns with different
\* evaluations and three non-empty buffers
C7_Witness ==
    /\ par.pc = "composed"
    /\ field_extension
    /\ Len(par.result) = 2
    /\ par.result[1] # par.result[2]
    /\ degree(coefficients) = 6

\* C5: add_trace_polys without the field extension leaves the coefficient vector
\* and returns the frame of a run with the extension whose conjugate-term
\* coefficients are all zero; without the extension the third buffer is empty, is
\* not divided and is not added: the result is the sum of the two quotients.
C5_ExtensionToggle ==
    (runs # <<>> /\ runs.kind = "toggle") =>
        /\ runs.c[2].status # "new" =>
              /\ runs.c[1].trace_poly = runs.c[2].trace_poly
              /\ runs.c[1].frame = runs.c[2].frame
              /\ (runs.c[1].frame = <<>>) <=> (runs.c[2].status = "aborted"
                                                /\ runs.c[2].result = <<>>
                                                /\ runs.c[2].coefficients = runs.c[2].trace_poly)
        /\ runs.c[1].status # "new" =>
              /\ runs.c[1].polys[3] = <<>>
              /\ runs.c[1].trace_poly =
                    AddInPlace(SynDivInPlace(runs.c[1].polys[1], runs.c[1].divisors[1]),
                               SynDivInPlace(runs.c[1].polys[2], runs.c[1].divisors[2]))

\* both runs returned from add_trace_polys, with an extension challenge, two
\* registers and a non-zero bundle
C5_Witness ==
    /\ runs # <<>>
    /\ runs.kind = "toggle"
    /\ runs.c[2].status = "traced"
    /\ runs.c[1].frame # <<>>
    /\ runs.c[1].z[2] # 0
    /\ Len(runs.trace_polys) = 2
    /\ degree(runs.c[2].trace_poly) = 6
    /\ runs.c[1].polys[3] = <<>>
    /\ runs.c[2].polys[3] = ZeroedVector(8)

\* C6: whenever the runs with the bundles A, B and A + B complete
\* add_trace_polys and add_composition_poly, the vector of the run with A + B is
\* the coefficient-wise sum of the other two.
C6_CompositionIsLinear ==
    (/\ runs # <<>>
     /\ runs.kind = "linear"
     /\ \A r \in 1..3 : runs.c[r].status = "composed")
        => runs.c[3].coefficients = AddInPlace(runs.c[1].coefficients, runs.c[2].coefficients)

\* three runs completed with two different non-zero bundles, length 8
C6_Witness ==
    /\ runs # <<>>
    /\ runs.kind = "linear"
    /\ \A r \in 1..3 : runs.c[r].status = "composed"
    /\ runs.c[1].cc # runs.c[2].cc
    /\ runs.c[1].cc # CoefficientsOf(0)
    /\ runs.c[1].field_extension
    /\ Len(runs.c[3].coefficients) = 8
    /\ runs.c[1].coefficients # runs.c[3].coefficients

====
